---------------------------- MODULE Spec2Model ----------------------------
(***************************************************************************)
(* A model of the RIFF/WAVE parser of src/src/main.rs (module `wave`).     *)
(*                                                                         *)
(* The parser is a cursor (ByteStream: bytes, offset) driven by            *)
(* WaveFileParser::parse.  Every function of the source is an action or a  *)
(* group of actions (entry, one loop iteration, exit); `pc` is the         *)
(* position in the code, `call`, `tac`, `tal`, `loc` are the arguments and *)
(* locals of the functions in flight.  A panic!() of the source is the     *)
(* terminal position "failed" with the failure kind in `failure`.          *)
(*                                                                         *)
(* Integers: every size field of the inputs is below 2^31, where the u32   *)
(* and usize arithmetic of the source is exact; the one subtraction that   *)
(* can wrap on such inputs (line 312) is modelled with both outcomes.      *)
(***************************************************************************)
EXTENDS Integers, Sequences, FiniteSets, TLC

VARIABLES
    bytes,      \* ByteStream.bytes                                (414)
    offset,     \* ByteStream.offset                               (415)
    pc,         \* position in the code
    failure,    \* kind of the panic that ended the parse, or "none"
    wave_file,  \* the WaveFile under construction                 (43-50)
    result,     \* value returned by the last try_accept_* call
    call,       \* arguments of the try_accept_* call being entered
    tac,        \* locals of try_accept_chunk                      (311-315)
    tal,        \* locals of try_accept_list_type                  (357-358)
    loc,        \* size and end_data (226-227), the caller of
                \* read_wave_data_chunk, end_list_chunk (144)
    spins,      \* iterations of the wavl loop that read nothing
    input,      \* how `bytes` was built (never read by the parser)
    baseline    \* result of the parse before a chunk was inserted

vars == <<bytes, offset, pc, failure, wave_file, result, call, tac, tal,
          loc, spins, input, baseline>>

---------------------------------------------------------------------------
(* Program constants *)

BYTES_CHUNK_ID == 4
BYTES_CHUNK_SIZE == 4
BYTES_LIST_TYPE == 4
WAVE_FORMAT_PCM == 1

(* Bounds of the model *)

\* largest declared size of a `data` chunk in the inputs
MaxPay == 6
\* largest number of chunks after the `fmt ` chunk in the chunk-walk inputs
MaxChunks == 2
\* iterations of a stalled wavl loop that are followed
MaxSpin == 2

---------------------------------------------------------------------------
(* Four-character codes, as the bytes of their ASCII characters *)

RIFF == <<82, 73, 70, 70>>
WAVE == <<87, 65, 86, 69>>
FMT  == <<102, 109, 116, 32>>
FACT == <<102, 97, 99, 116>>
CUE  == <<99, 117, 101, 32>>
PLST == <<112, 108, 115, 116>>
LIST == <<76, 73, 83, 84>>
ADTL == <<97, 100, 116, 108>>
LABL == <<108, 97, 98, 108>>
NOTE == <<110, 111, 116, 101>>
LTXT == <<108, 116, 120, 116>>
FILE == <<102, 105, 108, 101>>
WAVL == <<119, 97, 118, 108>>
DATA == <<100, 97, 116, 97>>
SLNT == <<115, 108, 110, 116>>
JUNK == <<106, 117, 110, 107>>
INFO == <<73, 78, 70, 79>>
RIFX == <<82, 73, 70, 88>>

---------------------------------------------------------------------------
(* Conversions (469-483) and the cursor's reads (430-455) *)

Reverse(s) == [i \in 1..Len(s) |-> s[Len(s) + 1 - i]]

to_u32(list) == list[1] * 16777216 + list[2] * 65536 + list[3] * 256 + list[4]

to_u16(list) == list[1] * 256 + list[2]

to_i16(list) == IF to_u16(list) >= 32768 THEN to_u16(list) - 65536
                ELSE to_u16(list)

\* ByteStream::peek succeeds: bytes.get(start..end) is Some
CanRead(b, off, count) == off + count <= Len(b)

\* ByteStream::peek, where it succeeds
Peek(b, off, count) == SubSeq(b, off + 1, off + count)

\* ByteStream::eof
Eof(b, off) == off = Len(b)

\* ByteStream::seek succeeds (it panics when offset >= bytes.len())
CanSeek(b, target) == target < Len(b)

\* read_chunk_size, where its read succeeds: the value of the size field
ChunkSizeAt(b, off) == to_u32(Reverse(Peek(b, off, BYTES_CHUNK_SIZE)))

\* (a variant: the size as declared, the pad byte forgotten)
PadEvenForgotten(size) == size

\* a size rounded up to even (328-330, 369-371, 403-405)
PadEven(size) == IF size % 2 # 0 THEN size + 1 ELSE size

---------------------------------------------------------------------------
(* The inputs: byte buffers built from a description.  A chunk is           *)
(* [id, size, body]: its tag, its declared size and the bytes that follow   *)
(* the size field (payload and pad byte, when the chunk is well formed).    *)

LE16(n) == <<n % 256, (n \div 256) % 256>>

LE32(n) == <<n % 256, (n \div 256) % 256, (n \div 65536) % 256,
             (n \div 16777216) % 256>>

Zeros(n) == [i \in 1..n |-> 0]

\* two payloads of n bytes, all bytes different
Ramp(n) == [i \in 1..n |-> i]
Fall(n) == [i \in 1..n |-> 128 - i]

\* a well-formed chunk: the payload, and one pad byte when its size is odd
Chunk(id, payload) ==
    [id |-> id, size |-> Len(payload),
     body |-> IF Len(payload) % 2 = 1 THEN payload \o <<0>> ELSE payload]

\* a chunk without its pad byte
BareChunk(id, payload) == [id |-> id, size |-> Len(payload), body |-> payload]

EncodeChunk(c) == c.id \o LE32(c.size) \o c.body

RECURSIVE EncodeChunks(_)
EncodeChunks(cs) ==
    IF cs = <<>> THEN <<>> ELSE EncodeChunk(Head(cs)) \o EncodeChunks(Tail(cs))

\* a LIST chunk of the given sub-type holding the given chunks
ListChunk(type, subs) == Chunk(LIST, type \o EncodeChunks(subs))

WellFormed(c) == c.size <= Len(c.body) /\ c = Chunk(c.id, SubSeq(c.body, 1, c.size))

BytesPerSample(bits) == IF bits <= 8 THEN 1 ELSE 2

FmtBody(f) ==
    LE16(f.tag) \o LE16(f.ch) \o LE32(f.rate)
    \o LE32(f.rate * f.ch * BytesPerSample(f.bits))
    \o LE16(f.ch * BytesPerSample(f.bits)) \o LE16(f.bits)

Untruncated(in) ==
    LET rest == EncodeChunks(in.pre) \o FMT \o LE32(16) \o FmtBody(in.fmt)
                \o EncodeChunks(in.post)
    IN  in.riff \o LE32(4 + Len(rest)) \o in.form \o rest

Encode(in) == SubSeq(Untruncated(in), 1, Len(Untruncated(in)) - in.cut)

Fmt(tag, ch, bits, rate) == [tag |-> tag, ch |-> ch, bits |-> bits, rate |-> rate]

Input(pre, fmt, post) ==
    [riff |-> RIFF, form |-> WAVE, pre |-> pre, fmt |-> fmt, post |-> post,
     cut |-> 0]

SeqsUpTo(S, n) == UNION {[1..k -> S] : k \in 0..n}

Mono8 == Fmt(WAVE_FORMAT_PCM, 1, 8, 8000)

\* the formats the decoder supports
Supported == {Fmt(WAVE_FORMAT_PCM, ch, bits, 8000) : ch \in {1, 2}, bits \in {8, 16}}

AllFormats ==
    {Fmt(WAVE_FORMAT_PCM, ch, bits, rate) :
        ch \in 0..3, bits \in {8, 16, 24}, rate \in {8000, 16000}}
    \cup {Fmt(2, 1, 8, 8000)}

DataChunks ==
    {Chunk(DATA, p) : p \in {Ramp(n) : n \in 0..MaxPay} \cup {Fall(n) : n \in 1..MaxPay}}
    \cup {BareChunk(DATA, Ramp(n)) : n \in 0..MaxPay}

\* a flat data chunk after the format chunk, in every format
FlatInputs == {Input(<<>>, f, <<d>>) : f \in AllFormats, d \in DataChunks}

\* a LIST chunk whose declared size is the number that reads "LIST": the
\* search for the list type `labl`, which starts at the size field of the
\* `adtl` list, finds a LIST tag there
ListSizedLIST ==
    [id |-> LIST, size |-> to_u32(Reverse(LIST)),
     body |-> ADTL \o LABL \o LE32(4) \o Zeros(12)]

AdtlInput ==
    Input(<<>>, Mono8,
          <<Chunk(FACT, Zeros(4)), Chunk(CUE, <<>>), Chunk(PLST, <<>>), ListSizedLIST>>)

\* a `wavl` list and, further on, another LIST chunk (the chunks between and
\* after them are what lets the searches pass over the lists and return)
TwoListInputs ==
    {Input(<<>>, Mono8,
           <<ListChunk(WAVL, <<Chunk(DATA, Ramp(2))>>), Chunk(JUNK, Zeros(4)),
             ListChunk(type, <<>>), Chunk(JUNK, Zeros(4))>>) : type \in {WAVL, INFO}}

WalkChunks ==
    { Chunk(JUNK, <<>>), Chunk(JUNK, <<7>>), Chunk(FACT, Zeros(4)),
      Chunk(CUE, <<>>), Chunk(PLST, <<9>>), Chunk(DATA, Ramp(2)),
      ListChunk(INFO, <<>>), ListChunk(INFO, <<Chunk(JUNK, <<>>)>>),
      ListChunk(ADTL, <<>>), ListChunk(WAVL, <<>>),
      ListChunk(WAVL, <<Chunk(DATA, Ramp(2))>>), Chunk(JUNK, Zeros(4)) }

\* the chunks of a file in any order, with and without a chunk before `fmt `
WalkInputs ==
    {Input(pre, Mono8, post) :
        pre \in {<<>>, <<Chunk(JUNK, <<7>>)>>}, post \in SeqsUpTo(WalkChunks, MaxChunks)}
    \cup {AdtlInput} \cup TwoListInputs

WavlSubChunks ==
    {Chunk(DATA, Ramp(n)) : n \in 0..MaxPay}
    \cup {Chunk(SLNT, Zeros(4)), Chunk(SLNT, <<1>>), Chunk(JUNK, <<>>)}

\* a `wavl` list of data and slnt chunks, in every supported format
\* (the chunk after the list is what lets the search for an `adtl` list,
\* which comes first, pass over the `wavl` list and return)
WavlInputs ==
    {Input(<<>>, f, <<ListChunk(WAVL, subs), Chunk(JUNK, Zeros(4))>>) :
        f \in Supported, subs \in SeqsUpTo(WavlSubChunks, 2)}

\* wrong markers, and every truncation of a small valid file
BrokenInputs ==
    {[Input(<<>>, Mono8, <<Chunk(DATA, Ramp(2))>>) EXCEPT !.riff = RIFX],
     [Input(<<>>, Mono8, <<Chunk(DATA, Ramp(2))>>) EXCEPT !.form = RIFX]}
    \cup {[Input(<<>>, Mono8, <<Chunk(DATA, Ramp(2))>>) EXCEPT !.cut = k] : k \in 1..(Len(Untruncated(Input(<<>>, Mono8, <<Chunk(DATA, Ramp(2))>>))) - 1)}

Inputs == FlatInputs \cup WalkInputs \cup WavlInputs \cup BrokenInputs

---------------------------------------------------------------------------
(* The state after construction (76-81) *)

DefaultWaveFile ==
    [channels |-> <<>>, sample_rate |-> 0, byte_rate |-> 0, block_align |-> 0,
     bits_per_sample |-> 0]

NoCall == [id |-> <<>>, parent_chunk_end |-> 0, ret |-> "none"]

NoTac ==
    [chunk_id |-> <<>>, start_offset |-> 0, num_bytes_to_read |-> 0,
     wrapped |-> FALSE, num_bytes_read |-> 0, found |-> FALSE, ret |-> "none"]

NoTal ==
    [list_type |-> <<>>, parent_chunk_end |-> 0, start_offset |-> 0,
     found |-> FALSE, ret |-> "none"]

NoLoc == [size |-> 0, end_data |-> 0, data_ret |-> "none", end_list_chunk |-> 0]

Fresh ==
    /\ offset = 0
    /\ pc = "parse"
    /\ failure = "none"
    /\ wave_file = DefaultWaveFile
    /\ result = FALSE
    /\ call = NoCall
    /\ tac = NoTac
    /\ tal = NoTal
    /\ loc = NoLoc
    /\ spins = 0
    /\ baseline = <<>>

Init ==
    /\ input \in Inputs
    /\ bytes = Encode(input)
    /\ Fresh

---------------------------------------------------------------------------
(* Ways an action ends *)

\* a panic!(): the parse is over and returns nothing
Panic(kind) ==
    /\ pc' = "failed"
    /\ failure' = kind
    /\ UNCHANGED <<bytes, offset, wave_file, result, call, tac, tal, loc, spins,
                   input, baseline>>

\* the call self.try_accept_chunk(id, parent_chunk_end) with the cursor at off
CallChunk(off, id, parent_chunk_end, ret) ==
    /\ offset' = off
    /\ call' = [id |-> id, parent_chunk_end |-> parent_chunk_end, ret |-> ret]
    /\ pc' = "tac_entry"
    /\ UNCHANGED <<bytes, failure, result, tac, loc, spins, input, baseline>>

\* the call self.try_accept_list_type(id, parent_chunk_end) with the cursor at off
CallList(off, id, parent_chunk_end, ret) ==
    /\ offset' = off
    /\ call' = [id |-> id, parent_chunk_end |-> parent_chunk_end, ret |-> ret]
    /\ pc' = "tal_entry"
    /\ UNCHANGED <<bytes, failure, result, tac, tal, loc, spins, input, baseline>>

\* skip_unimplemented_chunk (401-408) with the cursor at off
SkipUnimplemented(b, off) ==
    IF ~CanRead(b, off, BYTES_CHUNK_SIZE) THEN [st |-> "OutOfBounds"]
    ELSE LET size == PadEven(ChunkSizeAt(b, off))
         IN  IF ~CanRead(b, off + BYTES_CHUNK_SIZE, size) THEN [st |-> "OutOfBounds"]
             ELSE [st |-> "ok", off |-> off + BYTES_CHUNK_SIZE + size]

---------------------------------------------------------------------------
(* WaveFileParser::parse (76-97), up to its call of try_accept_chunk(b"fmt ") *)
(* in read_wave_riff_form (100-103)                                          *)

Parse ==
    /\ pc = "parse"
    /\ IF ~CanRead(bytes, 0, 4) THEN Panic("OutOfBounds")
       ELSE IF Peek(bytes, 0, 4) # RIFF THEN Panic("NotAWaveFile")
       ELSE IF ~CanRead(bytes, 4, BYTES_CHUNK_SIZE) THEN Panic("OutOfBounds")
       ELSE IF ~CanRead(bytes, 8, 4) THEN Panic("OutOfBounds")
       ELSE IF Peek(bytes, 8, 4) # WAVE THEN Panic("NotAWaveFile")
       ELSE /\ CallChunk(12, FMT, Len(bytes), "fmt_ret")
            /\ UNCHANGED <<wave_file, tal>>

---------------------------------------------------------------------------
(* try_accept_chunk (302-344) *)

\* lines 303-315.  parent_chunk_end - start_offset is a usize subtraction:
\* below zero it panics in a build with overflow checks and wraps without.
TacEntry ==
    /\ pc = "tac_entry"
    /\ IF call.parent_chunk_end > Len(bytes) THEN Panic("ContractViolation")
       ELSE IF Len(call.id) # BYTES_CHUNK_ID THEN Panic("ContractViolation")
       ELSE \E checked \in IF call.parent_chunk_end < offset THEN BOOLEAN ELSE {FALSE} :
            IF checked THEN Panic("ArithmeticOverflow")
            ELSE /\ tac' = [chunk_id |-> call.id,
                            start_offset |-> offset,
                            num_bytes_to_read |-> call.parent_chunk_end - offset,
                            wrapped |-> call.parent_chunk_end < offset,
                            num_bytes_read |-> 0,
                            found |-> FALSE,
                            ret |-> call.ret]
                 /\ pc' = "tac_loop"
                 /\ UNCHANGED <<bytes, offset, failure, wave_file, result, call, tal,
                                loc, spins, input, baseline>>

\* the loop condition of line 317
TacCond ==
    /\ ~tac.found
    /\ (tac.wrapped \/ tac.num_bytes_read < tac.num_bytes_to_read)
    /\ ~Eof(bytes, offset)

\* one iteration of the loop (318-334)
TacLoop ==
    /\ pc = "tac_loop"
    /\ TacCond
    /\ IF ~CanRead(bytes, offset, BYTES_CHUNK_ID) THEN Panic("OutOfBounds")
       ELSE IF tac.chunk_id = Peek(bytes, offset, BYTES_CHUNK_ID)
       THEN /\ offset' = offset + BYTES_CHUNK_ID
            /\ tac' = [tac EXCEPT !.num_bytes_read = @ + BYTES_CHUNK_ID, !.found = TRUE]
            /\ UNCHANGED <<bytes, pc, failure, wave_file, result, call, tal, loc,
                           spins, input, baseline>>
       ELSE IF ~CanRead(bytes, offset + BYTES_CHUNK_ID, BYTES_CHUNK_SIZE)
       THEN Panic("OutOfBounds")
       ELSE LET chunk_size == PadEven(ChunkSizeAt(bytes, offset + BYTES_CHUNK_ID))
                after_size == offset + BYTES_CHUNK_ID + BYTES_CHUNK_SIZE
            IN  IF ~CanRead(bytes, after_size, chunk_size) THEN Panic("OutOfBounds")
                ELSE /\ offset' = after_size + chunk_size
                     /\ tac' = [tac EXCEPT !.num_bytes_read =
                                    @ + BYTES_CHUNK_ID + BYTES_CHUNK_SIZE + chunk_size]
                     /\ UNCHANGED <<bytes, pc, failure, wave_file, result, call, tal,
                                    loc, spins, input, baseline>>

\* (a variant: no-match is returned from where the scan stopped)
TacExitWithoutRewind ==
    /\ pc = "tac_loop"
    /\ ~TacCond
    /\ result' = tac.found
    /\ pc' = tac.ret
    /\ UNCHANGED <<bytes, offset, failure, wave_file, call, tac, tal, loc, spins,
                   input, baseline>>

\* after the loop (337-343): return true, or rewind and return false
TacExit ==
    /\ pc = "tac_loop"
    /\ ~TacCond
    /\ IF tac.found
       THEN /\ result' = TRUE
            /\ pc' = tac.ret
            /\ UNCHANGED <<bytes, offset, failure, wave_file, call, tac, tal, loc,
                           spins, input, baseline>>
       ELSE IF ~CanSeek(bytes, tac.start_offset) THEN Panic("OutOfBounds")
       ELSE /\ offset' = tac.start_offset
            /\ result' = FALSE
            /\ pc' = tac.ret
            /\ UNCHANGED <<bytes, failure, wave_file, call, tac, tal, loc, spins,
                           input, baseline>>

---------------------------------------------------------------------------
(* try_accept_list_type (348-386) *)

\* lines 349-358 and the first evaluation of the loop condition of line 360
TalEntry ==
    /\ pc = "tal_entry"
    /\ IF call.parent_chunk_end > Len(bytes) THEN Panic("ContractViolation")
       ELSE IF Len(call.id) # BYTES_LIST_TYPE THEN Panic("ContractViolation")
       ELSE /\ tal' = [list_type |-> call.id,
                       parent_chunk_end |-> call.parent_chunk_end,
                       start_offset |-> offset,
                       found |-> FALSE,
                       ret |-> call.ret]
            /\ CallChunk(offset, LIST, call.parent_chunk_end, "tal_loop")
            /\ UNCHANGED wave_file

\* the loop body (361-373), then the loop condition of line 360 again
TalLoop ==
    /\ pc = "tal_loop"
    /\ result
    /\ IF ~CanRead(bytes, offset, BYTES_CHUNK_SIZE + BYTES_LIST_TYPE)
       THEN Panic("OutOfBounds")
       ELSE LET list_size == PadEven(ChunkSizeAt(bytes, offset))
                lt == Peek(bytes, offset + BYTES_CHUNK_SIZE, BYTES_LIST_TYPE)
                after_type == offset + BYTES_CHUNK_SIZE + BYTES_LIST_TYPE
            IN  IF lt = tal.list_type
                THEN /\ tal' = [tal EXCEPT !.found = TRUE]
                     /\ CallChunk(after_type, LIST, tal.parent_chunk_end, "tal_loop")
                     /\ UNCHANGED wave_file
                ELSE IF ~CanRead(bytes, after_type, list_size) THEN Panic("OutOfBounds")
                ELSE /\ CallChunk(after_type + list_size, LIST, tal.parent_chunk_end,
                                  "tal_loop")
                     /\ UNCHANGED <<wave_file, tal>>

\* after the loop (376-385)
TalExit ==
    /\ pc = "tal_loop"
    /\ ~result
    /\ LET target == IF tal.found THEN offset - (BYTES_LIST_TYPE + BYTES_CHUNK_SIZE)
                     ELSE tal.start_offset
       IN  IF ~CanSeek(bytes, target) THEN Panic("OutOfBounds")
           ELSE /\ offset' = target
                /\ result' = tal.found
                /\ pc' = tal.ret
                /\ UNCHANGED <<bytes, failure, wave_file, call, tac, tal, loc, spins,
                               input, baseline>>

---------------------------------------------------------------------------
(* read_wave_riff_form (99-165), one action per return of a matcher *)

\* lines 103-106 with read_fmt_chunk (167-213), then the call of line 109
AfterFmt ==
    /\ pc = "fmt_ret"
    /\ IF ~result THEN Panic("MissingRequiredChunk")
       ELSE IF ~CanRead(bytes, offset, BYTES_CHUNK_SIZE + 16) THEN Panic("OutOfBounds")
       ELSE LET at == offset + BYTES_CHUNK_SIZE
                w_format_tag == to_u16(Reverse(Peek(bytes, at, 2)))
                w_channels == to_u16(Reverse(Peek(bytes, at + 2, 2)))
                dw_samples_per_second == to_u32(Reverse(Peek(bytes, at + 4, 4)))
                dw_average_bytes_per_second == to_u32(Reverse(Peek(bytes, at + 8, 4)))
                w_block_align == to_u16(Reverse(Peek(bytes, at + 12, 2)))
                w_bits_per_sample == to_u16(Reverse(Peek(bytes, at + 14, 2)))
            IN  IF w_format_tag # WAVE_FORMAT_PCM THEN Panic("UnsupportedFormat")
                ELSE /\ wave_file' = [channels |-> [i \in 1..w_channels |-> <<>>],
                                      sample_rate |-> dw_samples_per_second,
                                      byte_rate |-> dw_average_bytes_per_second,
                                      block_align |-> w_block_align,
                                      bits_per_sample |-> w_bits_per_sample]
                     /\ CallChunk(at + 16, FACT, Len(bytes), "fact_ret")
                     /\ UNCHANGED tal

\* what follows an optional chunk: the cursor after read_fact_chunk,
\* read_cue_chunk or read_playlist_chunk (215-223) when the chunk was found
AfterOptional ==
    IF result THEN SkipUnimplemented(bytes, offset)
    ELSE [st |-> "ok", off |-> offset]

\* lines 109-113
AfterFact ==
    /\ pc = "fact_ret"
    /\ IF AfterOptional.st # "ok" THEN Panic(AfterOptional.st)
       ELSE /\ CallChunk(AfterOptional.off, CUE, Len(bytes), "cue_ret")
            /\ UNCHANGED <<tal, wave_file>>

\* lines 113-117
AfterCue ==
    /\ pc = "cue_ret"
    /\ IF AfterOptional.st # "ok" THEN Panic(AfterOptional.st)
       ELSE /\ CallChunk(AfterOptional.off, PLST, Len(bytes), "plst_ret")
            /\ UNCHANGED <<tal, wave_file>>

\* lines 117-121
AfterPlst ==
    /\ pc = "plst_ret"
    /\ IF AfterOptional.st # "ok" THEN Panic(AfterOptional.st)
       ELSE /\ CallList(AfterOptional.off, ADTL, Len(bytes), "adtl_ret")
            /\ UNCHANGED wave_file

\* line 121: with an adtl list, its members are required (122); without,
\* the wave data is looked for (142)
AfterAdtl ==
    /\ pc = "adtl_ret"
    /\ IF result THEN CallList(offset, LABL, Len(bytes), "labl_ret")
       ELSE CallList(offset, WAVL, Len(bytes), "wavl_ret")
    /\ UNCHANGED wave_file

\* the members of the adtl list, in the order of lines 122-137, and the
\* list type looked for after each
AdtlNext ==
    [labl_ret |-> [id |-> NOTE, ret |-> "note_ret"],
     note_ret |-> [id |-> LTXT, ret |-> "ltxt_ret"],
     ltxt_ret |-> [id |-> FILE, ret |-> "file_ret"],
     file_ret |-> [id |-> WAVL, ret |-> "wavl_ret"]]

\* lines 122-137 (one member) and the call that follows it
AfterAdtlMember ==
    /\ pc \in DOMAIN AdtlNext
    /\ IF ~result THEN Panic("MissingRequiredChunk")
       ELSE LET skip == SkipUnimplemented(bytes, offset)
            IN  IF skip.st # "ok" THEN Panic(skip.st)
                ELSE /\ CallList(skip.off, AdtlNext[pc].id, Len(bytes), AdtlNext[pc].ret)
                     /\ UNCHANGED wave_file

\* lines 142-147, or the call of line 159
AfterWavl ==
    /\ pc = "wavl_ret"
    /\ IF result
       THEN IF ~CanRead(bytes, offset, BYTES_CHUNK_SIZE + BYTES_LIST_TYPE)
            THEN Panic("OutOfBounds")
            ELSE /\ loc' = [loc EXCEPT !.end_list_chunk =
                                offset + BYTES_CHUNK_SIZE + ChunkSizeAt(bytes, offset)]
                 /\ offset' = offset + BYTES_CHUNK_SIZE + BYTES_LIST_TYPE
                 /\ pc' = "wavl_loop"
                 /\ UNCHANGED <<bytes, failure, wave_file, result, call, tac, tal,
                                spins, input, baseline>>
       ELSE /\ CallChunk(offset, DATA, Len(bytes), "data_ret")
            /\ UNCHANGED <<wave_file, tal>>

\* the loop condition of line 150
WavlCond == offset < loc.end_list_chunk /\ ~Eof(bytes, offset)

\* one iteration of the loop over the chunks of a wavl list (151-156)
WavlLoop ==
    /\ pc = "wavl_loop"
    /\ WavlCond
    /\ IF ~CanRead(bytes, offset, 4) THEN Panic("OutOfBounds")
       ELSE IF Peek(bytes, offset, 4) = DATA
       THEN /\ offset' = offset + 4
            /\ loc' = [loc EXCEPT !.data_ret = "wavl_loop"]
            /\ pc' = "data_entry"
            /\ UNCHANGED <<bytes, failure, wave_file, result, call, tac, tal, spins,
                           input, baseline>>
       ELSE IF Peek(bytes, offset, 4) = SLNT
       THEN LET skip == SkipUnimplemented(bytes, offset + 4)
            IN  IF skip.st # "ok" THEN Panic(skip.st)
                ELSE /\ offset' = skip.off
                     /\ UNCHANGED <<bytes, pc, failure, wave_file, result, call, tac,
                                    tal, loc, spins, input, baseline>>
       ELSE \* neither branch is taken: nothing is read
            /\ spins < MaxSpin
            /\ spins' = spins + 1
            /\ UNCHANGED <<bytes, offset, pc, failure, wave_file, result, call, tac,
                           tal, loc, input, baseline>>

\* the end of the wavl list: read_wave_riff_form and parse return (158, 96)
WavlExit ==
    /\ pc = "wavl_loop"
    /\ ~WavlCond
    /\ pc' = "done"
    /\ UNCHANGED <<bytes, offset, failure, wave_file, result, call, tac, tal, loc,
                   spins, input, baseline>>

\* lines 159-164
AfterData ==
    /\ pc = "data_ret"
    /\ IF ~result THEN Panic("MissingDataChunk")
       ELSE /\ loc' = [loc EXCEPT !.data_ret = "done"]
            /\ pc' = "data_entry"
            /\ UNCHANGED <<bytes, offset, failure, wave_file, result, call, tac, tal,
                           spins, input, baseline>>

---------------------------------------------------------------------------
(* read_wave_data_chunk (225-251) and read_sample (257-270) *)

\* (a variant: the two bytes of a 16-bit sample are not reversed)
ReadSampleUnreversed(b, off, bit_depth) ==
    IF bit_depth <= 8
    THEN IF ~CanRead(b, off, 1) THEN [st |-> "OutOfBounds"]
         ELSE [st |-> "ok", off |-> off + 1,
               sample |-> [depth |-> 8, value |-> Peek(b, off, 1)[1]]]
    ELSE IF bit_depth <= 16
    THEN IF ~CanRead(b, off, 2) THEN [st |-> "OutOfBounds"]
         ELSE [st |-> "ok", off |-> off + 2,
               sample |-> [depth |-> 16, value |-> to_i16(Peek(b, off, 2))]]
    ELSE [st |-> "UnsupportedBitDepth"]

\* read_sample with the cursor at off
ReadSample(b, off, bit_depth) ==
    IF bit_depth <= 8
    THEN IF ~CanRead(b, off, 1) THEN [st |-> "OutOfBounds"]
         ELSE [st |-> "ok", off |-> off + 1,
               sample |-> [depth |-> 8, value |-> Peek(b, off, 1)[1]]]
    ELSE IF bit_depth <= 16
    THEN IF ~CanRead(b, off, 2) THEN [st |-> "OutOfBounds"]
         ELSE [st |-> "ok", off |-> off + 2,
               sample |-> [depth |-> 16, value |-> to_i16(Reverse(Peek(b, off, 2)))]]
    ELSE [st |-> "UnsupportedBitDepth"]

\* the pushes of a mono frame (234) and of a stereo frame (240-241)
PushMono(channels, sample) == [channels EXCEPT ![1] = Append(@, sample)]

\* (a variant: the two samples of a frame go to the wrong channels)
PushStereoSwapped(channels, first_sample, second_sample) ==
    [channels EXCEPT ![1] = Append(@, second_sample), ![2] = Append(@, first_sample)]

PushStereo(channels, first_sample, second_sample) ==
    [channels EXCEPT ![1] = Append(@, first_sample), ![2] = Append(@, second_sample)]

\* lines 226-227
DataEntry ==
    /\ pc = "data_entry"
    /\ IF ~CanRead(bytes, offset, BYTES_CHUNK_SIZE) THEN Panic("OutOfBounds")
       ELSE /\ offset' = offset + BYTES_CHUNK_SIZE
            /\ loc' = [loc EXCEPT
                          !.size = ChunkSizeAt(bytes, offset),
                          !.end_data = offset + BYTES_CHUNK_SIZE + ChunkSizeAt(bytes, offset)]
            /\ pc' = "data_loop"
            /\ UNCHANGED <<bytes, failure, wave_file, result, call, tac, tal, spins,
                           input, baseline>>

\* the loop condition of line 229
DataCond == offset < loc.end_data

\* one iteration of the decode loop: one frame (230-244)
DataLoop ==
    /\ pc = "data_loop"
    /\ DataCond
    /\ IF Len(wave_file.channels) = 1
       THEN LET s == ReadSample(bytes, offset, wave_file.bits_per_sample)
            IN  IF s.st # "ok" THEN Panic(s.st)
                ELSE /\ offset' = s.off
                     /\ wave_file' = [wave_file EXCEPT
                                        !.channels = PushMono(@, s.sample)]
                     /\ UNCHANGED <<bytes, pc, failure, result, call, tac, tal, loc,
                                    spins, input, baseline>>
       ELSE IF Len(wave_file.channels) = 2
       THEN LET first == ReadSample(bytes, offset, wave_file.bits_per_sample)
            IN  IF first.st # "ok" THEN Panic(first.st)
                ELSE LET second == ReadSample(bytes, first.off, wave_file.bits_per_sample)
                     IN  IF second.st # "ok" THEN Panic(second.st)
                         ELSE /\ offset' = second.off
                              /\ wave_file' = [wave_file EXCEPT
                                     !.channels = PushStereo(@, first.sample,
                                                             second.sample)]
                              /\ UNCHANGED <<bytes, pc, failure, result, call, tac, tal,
                                             loc, spins, input, baseline>>
       ELSE Panic("UnsupportedChannelCount")

\* after the loop (247-250): the pad byte, and the return to the caller
DataExit ==
    /\ pc = "data_loop"
    /\ ~DataCond
    /\ IF offset % 2 # 0 /\ ~CanRead(bytes, offset, 1) THEN Panic("OutOfBounds")
       ELSE /\ offset' = IF offset % 2 # 0 THEN offset + 1 ELSE offset
            /\ pc' = loc.data_ret
            /\ UNCHANGED <<bytes, failure, wave_file, result, call, tac, tal, loc,
                           spins, input, baseline>>

---------------------------------------------------------------------------

Next ==
    \/ Parse
    \/ TacEntry \/ TacLoop \/ TacExit
    \/ TalEntry \/ TalLoop \/ TalExit
    \/ AfterFmt \/ AfterFact \/ AfterCue \/ AfterPlst
    \/ AfterAdtl \/ AfterAdtlMember \/ AfterWavl
    \/ WavlLoop \/ WavlExit \/ AfterData
    \/ DataEntry \/ DataLoop \/ DataExit

Spec == Init /\ [][Next]_vars

---------------------------------------------------------------------------
(* A second parse, of the same file with one chunk inserted before `fmt ` *)

\* largest declared size of the inserted chunk
MaxInsert == 3

BEXT == <<98, 101, 120, 116>>

\* well-formed chunks with tags the parser does not know
InsertedChunks == {Chunk(id, Ramp(s)) : id \in {JUNK, BEXT}, s \in 0..MaxInsert}

\* b with the chunk c between the "WAVE" sub-type and what follows it
InsertAfterForm(b, c) == SubSeq(b, 1, 12) \o EncodeChunk(c) \o SubSeq(b, 13, Len(b))

\* parse(B) has returned a WaveFile: parse(B') starts, B' being B with a chunk inserted
InsertAndReparse ==
    /\ pc = "done"
    /\ baseline = <<>>
    /\ \E c \in InsertedChunks :
         /\ bytes' = InsertAfterForm(bytes, c)
         /\ baseline' = <<[wave_file |-> wave_file, inserted |-> c]>>
    /\ offset' = 0
    /\ pc' = "parse"
    /\ wave_file' = DefaultWaveFile
    /\ result' = FALSE
    /\ call' = NoCall
    /\ tac' = NoTac
    /\ tal' = NoTal
    /\ loc' = NoLoc
    /\ UNCHANGED <<failure, spins, input>>

NextInsert == Next \/ InsertAndReparse

SpecInsert == Init /\ [][NextInsert]_vars

---------------------------------------------------------------------------
(* try_accept_chunk alone: any tag, any region end, any cursor offset *)

\* largest number of chunks in the buffers searched
MaxMatchChunks == 2

MatchChunks == {Chunk(JUNK, <<7>>), Chunk(FACT, Ramp(2)), Chunk(DATA, <<>>)}

MatchBuffers == {EncodeChunks(cs) : cs \in SeqsUpTo(MatchChunks, MaxMatchChunks)}

MatchTags == {JUNK, FACT, DATA, INFO}

\* `input` records the cursor offset at the call; the region end may also
\* break the precondition of line 303
InitMatch ==
    /\ bytes \in MatchBuffers
    /\ offset \in 0..Len(bytes)
    /\ pc = "tac_entry"
    /\ failure = "none"
    /\ wave_file = DefaultWaveFile
    /\ result = FALSE
    /\ \E id \in MatchTags, parent_chunk_end \in 0..(Len(bytes) + 1) :
         call = [id |-> id, parent_chunk_end |-> parent_chunk_end, ret |-> "halt"]
    /\ tac = NoTac
    /\ tal = NoTal
    /\ loc = NoLoc
    /\ spins = 0
    /\ input = [entry |-> offset]
    /\ baseline = <<>>

NextMatch == TacEntry \/ TacLoop \/ TacExit

SpecMatch == InitMatch /\ [][NextMatch]_vars

---------------------------------------------------------------------------
(* read_sample alone: one mono frame of a data chunk, for every pair of    *)
(* bytes and bit depths on both sides of each threshold                     *)

SampleDepths == {1, 8, 9, 16, 17}

InitSample ==
    /\ \E b0 \in 0..255, b1 \in 0..255 : bytes = <<b0, b1>>
    /\ offset = 0
    /\ pc = "data_loop"
    /\ failure = "none"
    /\ \E depth \in SampleDepths :
         wave_file = [DefaultWaveFile EXCEPT !.channels = <<<<>>>>,
                                             !.bits_per_sample = depth]
    /\ result = FALSE
    /\ call = NoCall
    /\ tac = NoTac
    /\ tal = NoTal
    /\ loc = [size |-> 1, end_data |-> 1, data_ret |-> "halt", end_list_chunk |-> 0]
    /\ spins = 0
    /\ input = [entry |-> 0]
    /\ baseline = <<>>

NextSample == DataLoop \/ DataExit

SpecSample == InitSample /\ [][NextSample]_vars

---------------------------------------------------------------------------
(* The properties *)

Ended == {"done", "failed"}

ValidHeader(in) == in.riff = RIFF /\ in.form = WAVE /\ in.cut = 0

\* a valid header, a PCM format chunk and one data chunk, nothing else
SimpleForm(in) ==
    /\ ValidHeader(in)
    /\ in.pre = <<>>
    /\ in.fmt.tag = WAVE_FORMAT_PCM
    /\ Len(in.post) = 1
    /\ in.post[1].id = DATA

\* a state from which one iteration of a scan loop is taken
IterationHead ==
    \/ pc = "tac_loop" /\ TacCond
    \/ pc = "tal_loop" /\ result
    \/ pc = "data_loop" /\ DataCond
    \/ pc = "wavl_loop" /\ WavlCond

\* C1: every iteration of every scan loop (try_accept_chunk,
\* try_accept_list_type, the data decode loop, the loop over the chunks of a
\* wavl list) strictly advances the cursor offset or ends the parse.
C1_EveryIterationAdvances ==
    [][IterationHead => (offset' > offset \/ pc' \in Ended)]_vars

\* the result C2 states for a mono or stereo 8-bit file: the parse does not
\* fail, and returns the format's values and the payload de-interleaved
C2Result(in) ==
    LET c == in.fmt.ch
        n == in.post[1].size
    IN  /\ pc # "failed"
        /\ pc = "done" =>
             /\ Len(wave_file.channels) = c
             /\ wave_file.sample_rate = in.fmt.rate
             /\ wave_file.bits_per_sample = 8
             /\ \A j \in 0..(c - 1) :
                  /\ Len(wave_file.channels[j + 1]) = n \div c
                  /\ \A k \in 0..((n \div c) - 1) :
                       wave_file.channels[j + 1][k + 1] =
                           [depth |-> 8, value |-> in.post[1].body[k * c + j + 1]]

C2Format(in) ==
    /\ SimpleForm(in)
    /\ in.fmt.ch \in {1, 2}
    /\ in.fmt.bits = 8
    /\ in.post[1].size % in.fmt.ch = 0

\* C2 as claimed: RIFF,size,WAVE,fmt ,16,<PCM, c in {1,2}, r, 8 bits>,data,n,
\* <exactly n payload bytes>, n a multiple of c, parses to c channels, rate r,
\* 8 bits, sample k of channel j being payload byte k*c + j.
C2_Original ==
    (C2Format(input) /\ Len(input.post[1].body) = input.post[1].size)
        => C2Result(input)

\* C2 as amended: the same, the payload being followed by one pad byte when
\* n is odd.
C2_Amended ==
    (C2Format(input) /\ WellFormed(input.post[1])) => C2Result(input)

C2_Witness ==
    /\ C2Format(input) /\ WellFormed(input.post[1])
    /\ pc = "done"
    /\ input.fmt.ch = 2
    /\ input.post[1].size >= 4

\* C3: a file that parses still parses, to the same WaveFile, with one
\* well-formed chunk of unknown tag inserted between "WAVE" and `fmt `: the
\* search for `fmt ` succeeds with the cursor just after the `fmt ` tag, the
\* parse does not fail, and the WaveFile returned is the one of the first parse.
C3_InsertedChunkSkipped ==
    baseline # <<>> =>
        /\ pc # "failed"
        /\ spins = 0
        /\ pc = "fmt_ret" =>
             /\ result
             /\ offset >= 12 + Len(EncodeChunk(baseline[1].inserted)) + BYTES_CHUNK_ID
             /\ Peek(bytes, offset - BYTES_CHUNK_ID, BYTES_CHUNK_ID) = FMT
        /\ pc = "done" => wave_file = baseline[1].wave_file

C3_Witness ==
    /\ baseline # <<>>
    /\ pc = "done"
    /\ baseline[1].inserted.size % 2 = 1
    /\ Len(wave_file.channels) = 2
    /\ Len(wave_file.channels[2]) > 0

\* a valid header and PCM format chunk followed by well-formed chunks, none
\* of them a data chunk or a LIST of sub-type wavl
C4Form(in) ==
    /\ ValidHeader(in)
    /\ in.pre = <<>>
    /\ in.fmt.tag = WAVE_FORMAT_PCM
    /\ \A i \in 1..Len(in.post) :
         /\ WellFormed(in.post[i])
         /\ in.post[i].id # DATA
         /\ ~(in.post[i].id = LIST /\ SubSeq(in.post[i].body, 1, 4) = WAVL)

\* C4: such a file (the one that ends with the format chunk included) fails
\* with MissingDataChunk and with no other failure.
C4_MissingDataChunk ==
    C4Form(input) => (pc # "done" /\ (pc = "failed" => failure = "MissingDataChunk"))

\* a number below 2^16 as a signed 16-bit two's-complement value
S16(u) == ((u + 32768) % 65536) - 32768

\* C5 as claimed: at a bit depth of at most 8 a sample byte b decodes to the
\* unsigned value b; at a bit depth in 9..16 the two bytes [hi, lo], hi read
\* first, decode to hi*256 + lo as a signed 16-bit value.
C5_Original ==
    Len(wave_file.channels[1]) = 1 =>
        LET depth == wave_file.bits_per_sample
            sample == wave_file.channels[1][1]
        IN  /\ depth <= 8 => sample = [depth |-> 8, value |-> bytes[1]]
            /\ depth \in 9..16 =>
                 sample = [depth |-> 16, value |-> S16(bytes[1] * 256 + bytes[2])]

\* C5 as amended: at a bit depth of at most 8 a sample byte b decodes to the
\* unsigned value b; at a bit depth in 9..16 the two bytes [b0, b1], b0 read
\* first, decode to b1*256 + b0 as a signed 16-bit value (the byte read
\* second is the most significant).
C5_Amended ==
    Len(wave_file.channels[1]) = 1 =>
        LET depth == wave_file.bits_per_sample
            sample == wave_file.channels[1][1]
        IN  /\ depth <= 8 => sample = [depth |-> 8, value |-> bytes[1]]
            /\ depth \in 9..16 =>
                 sample = [depth |-> 16, value |-> S16(bytes[2] * 256 + bytes[1])]

C5_Witness ==
    /\ Len(wave_file.channels[1]) = 1
    /\ wave_file.bits_per_sample = 16
    /\ bytes = <<1, 128>>
    /\ wave_file.channels[1][1].value = -32767

\* C6: when try_accept_chunk returns false the cursor offset is the offset
\* at the call, whatever the tag, the region end and the offset at the call,
\* and however many chunks the scan skipped.
C6_RewindOnNoMatch ==
    (pc = "halt" /\ ~result) => offset = input.entry

C6_Witness ==
    /\ pc = "halt"
    /\ ~result
    /\ tac.num_bytes_read > 8
    /\ input.entry > 0

\* the format chunk has been read: a matcher has been called for a later chunk
FormatRead == call.ret \notin {"none", "fmt_ret"}

\* C7: the number of channel sequences is the channel count of the format
\* chunk from the moment it is read; all channel sequences have the same
\* length after every frame; and a parse that succeeds on a file with one
\* data chunk returns channel sequences whose length is the payload size
\* divided by channels times bytes per sample.
C7_ChannelInvariant ==
    /\ FormatRead => Len(wave_file.channels) = input.fmt.ch
    /\ \A i, j \in 1..Len(wave_file.channels) :
         Len(wave_file.channels[i]) = Len(wave_file.channels[j])
    /\ (pc = "done" /\ SimpleForm(input)) =>
         \A j \in 1..Len(wave_file.channels) :
            Len(wave_file.channels[j]) =
                input.post[1].size \div (input.fmt.ch * BytesPerSample(input.fmt.bits))

\* a declared size and its pad byte
Padded(s) == s + (s % 2)

\* C8: after the size field of a chunk of declared size s that is skipped by
\* try_accept_chunk, skipped as fact, cue, plst or slnt, or decoded as data,
\* the cursor has moved by s bytes, and by one more when s is odd, when the
\* next tag is read.
C8_PaddingLaw ==
    [][ /\ ( /\ pc = "tac_loop" /\ TacCond /\ pc' # "failed"
             /\ CanRead(bytes, offset, BYTES_CHUNK_ID)
             /\ Peek(bytes, offset, BYTES_CHUNK_ID) # tac.chunk_id )
           => offset' = offset + BYTES_CHUNK_ID + BYTES_CHUNK_SIZE
                        + Padded(ChunkSizeAt(bytes, offset + BYTES_CHUNK_ID))
        /\ (pc \in {"fact_ret", "cue_ret", "plst_ret"} /\ result /\ pc' # "failed")
           => offset' = offset + BYTES_CHUNK_SIZE + Padded(ChunkSizeAt(bytes, offset))
        /\ ( /\ pc = "wavl_loop" /\ WavlCond /\ pc' # "failed"
             /\ CanRead(bytes, offset, 4)
             /\ Peek(bytes, offset, 4) = SLNT )
           => offset' = offset + 4 + BYTES_CHUNK_SIZE
                        + Padded(ChunkSizeAt(bytes, offset + 4))
        /\ (pc = "data_loop" /\ ~DataCond /\ pc' # "failed")
           => offset' = (loc.end_data - loc.size) + Padded(loc.size)
      ]_vars

\* C9: with a channel count other than 1 and 2 and a data chunk inside the
\* buffer, of any declared size, the parse fails with UnsupportedChannelCount.
C9_UnsupportedChannelCount ==
    (SimpleForm(input) /\ input.fmt.ch \notin {1, 2} /\ WellFormed(input.post[1]))
        => (pc # "done" /\ (pc = "failed" => failure = "UnsupportedChannelCount"))

\* the offset of the tag of the first LIST chunk of the given sub-type among
\* the sibling chunks that start at p, or -1
RECURSIVE FirstList(_, _, _)
FirstList(b, p, type) ==
    IF ~CanRead(b, p, BYTES_CHUNK_ID + BYTES_CHUNK_SIZE) THEN -1
    ELSE IF /\ Peek(b, p, BYTES_CHUNK_ID) = LIST
            /\ CanRead(b, p, BYTES_CHUNK_ID + BYTES_CHUNK_SIZE + BYTES_LIST_TYPE)
            /\ Peek(b, p + BYTES_CHUNK_ID + BYTES_CHUNK_SIZE, BYTES_LIST_TYPE) = type
    THEN p
    ELSE FirstList(b, p + BYTES_CHUNK_ID + BYTES_CHUNK_SIZE
                        + Padded(ChunkSizeAt(b, p + BYTES_CHUNK_ID)), type)

\* C10: when try_accept_list_type returns true the cursor is at the first
\* byte of the LIST tag of the first LIST chunk, in sibling order from the
\* offset at the call, whose sub-type is the one looked for, also when
\* further LIST chunks follow it.
C10_CursorAtListTag ==
    (pc = tal.ret /\ result)
        => offset = FirstList(bytes, tal.start_offset, tal.list_type)


\* C11: when try_accept_list_type finds a LIST chunk, tag at offset p and
\* declared size s, whose list type is not the one looked for, the next tag
\* it examines is read at p + 8 + s + (s mod 2), the start of the next
\* sibling chunk.
C11_ListSkipToNextSibling ==
    [][ ( /\ pc = "tal_loop" /\ result /\ pc' # "failed"
          /\ CanRead(bytes, offset, BYTES_CHUNK_SIZE + BYTES_LIST_TYPE)
          /\ Peek(bytes, offset + BYTES_CHUNK_SIZE, BYTES_LIST_TYPE) # tal.list_type )
        => offset' = (offset - BYTES_CHUNK_ID) + BYTES_CHUNK_ID + BYTES_CHUNK_SIZE
                     + Padded(ChunkSizeAt(bytes, offset))
      ]_vars

===========================================================================
